---- MODULE Spec2Model ----
(***************************************************************************)
(* Model of cursor_id_modifier.py: the process quiescer, the backup step,  *)
(* the registry mutator, the config mutator and the orchestrator (main).   *)
(***************************************************************************)
EXTENDS Integers, Sequences, FiniteSets, TLC

VARIABLES
    platform,       \* sys.platform: "win32" or "posix"
    admin,          \* result of is_admin()
    procs,          \* OS process table: name -> number of live processes
    spawns,         \* number of processes started since the run began
    now,            \* wall clock, in seconds
    pc,             \* position of main()
    call,           \* which close_cursor_process call of main() is running
    retry_count,    \* close_cursor_process: retry_count
    lastSeen,       \* process table as read by the most recent enumeration
    enumerated,     \* TRUE once an enumeration has happened
    quiesce,        \* the running (or last) close_cursor_process call: result
                    \* of the first enumeration, termination requests sent,
                    \* time and result (a match is still running) of each
                    \* poll, sleeps, and how the call ended
    backupDirExists,
    cfgExists,
    cfgDisk,        \* bytes of storage.json
    cfgBackups,     \* files storage.json.backup_<ts>: name -> bytes
    regValue,       \* HKLM\SOFTWARE\Microsoft\Cryptography\MachineGuid
    regBackups,     \* files MachineGuid_<ts>.reg: name -> exported value
    ids,            \* identifiers generated by main()
    machine_guid_updated,
    storage_update_successful,
    exitCode,       \* -1 while running
    prompted,       \* the "press enter" prompt was shown
    summaryShown,   \* the summary of new identifiers was printed
    hist            \* what the run has done so far (observation only)

vars == <<platform, admin, procs, spawns, now, pc, call, retry_count,
          lastSeen, enumerated, quiesce, backupDirExists, cfgExists, cfgDisk,
          cfgBackups, regValue, regBackups, ids, machine_guid_updated,
          storage_update_successful, exitCode, prompted, summaryShown, hist>>

----------------------------------------------------------------------------
(* Program constants and bounds *)

MAX_RETRIES == 5
WAIT_TIME_SECONDS == 1

MaxProcs == 2       \* processes the process table may hold
MaxSpawns == 1      \* processes that may appear while the run is going
MaxLayoutLen == 2   \* line-ending bytes in a config file

----------------------------------------------------------------------------
(* JSON text and Python values *)

\* A lexeme is a scalar token of JSON text: t is "str", "num" or "lit",
\* v the characters of the token (for a string, those between the quotes).
Lx(t, v) == [t |-> t, v |-> v]
NoLex == Lx("", "")

\* A value, as text on disk or as a Python object, has one shape:
\* k in {"scalar", "array", "object", "invalid"}.
Scal(x) == [k |-> "scalar", s |-> x, a |-> <<>>, o |-> <<>>]
Arr(xs) == [k |-> "array", s |-> NoLex, a |-> xs, o |-> <<>>]
Obj(f) == [k |-> "object", s |-> NoLex, a |-> <<>>, o |-> f]
Invalid(why) == [k |-> "invalid", s |-> Lx("bad", why), a |-> <<>>, o |-> <<>>]

\* json decoding of a string token: \u0061 is an escape of the letter a.
Unescape(raw) == IF raw = "\\u0061" THEN "a" ELSE raw

\* float(text) followed by repr(): "1.0e0" and "1.0" are the same float.
FloatRepr(text) == IF text \in {"1.0", "1.0e0", "10e-1"} THEN "1.0" ELSE text

IsIntText(text) == text \in {"0", "1", "2"}

\* json.loads on one scalar token
PyScalar(l) ==
    CASE l.t = "str" -> Lx("str", Unescape(l.v))
      [] l.t = "num" -> IF IsIntText(l.v) THEN Lx("int", l.v)
                                          ELSE Lx("float", FloatRepr(l.v))
      [] l.t = "lit" -> IF l.v = "null" THEN Lx("NoneType", "None")
                        ELSE IF l.v = "true" THEN Lx("bool", "True")
                        ELSE Lx("bool", "False")
      [] OTHER -> NoLex

\* json.dumps(..., ensure_ascii=False) on one scalar
DumpScalar(p) ==
    CASE p.t = "str" -> Lx("str", p.v)
      [] p.t \in {"int", "float"} -> Lx("num", p.v)
      [] p.t = "NoneType" -> Lx("lit", "null")
      [] p.t = "bool" -> Lx("lit", IF p.v = "True" THEN "true" ELSE "false")
      [] OTHER -> NoLex

\* F(e), with e evaluated once
Let(e, F(_)) == CHOOSE y \in {F(v) : v \in {e}} : TRUE

RECURSIVE ParseV(_), DumpV(_), Newlines(_)

\* json.loads on a value
ParseV(tv) ==
    CASE tv.k = "scalar" -> Scal(PyScalar(tv.s))
      [] tv.k = "array" -> Arr([i \in DOMAIN tv.a |-> PyScalar(tv.a[i])])
      [] tv.k = "object" -> Obj([key \in DOMAIN tv.o |-> ParseV(tv.o[key])])
      [] OTHER -> tv

\* json.dumps on a value: the tokens
DumpV(pv) ==
    CASE pv.k = "scalar" -> Scal(DumpScalar(pv.s))
      [] pv.k = "array" -> Arr([i \in DOMAIN pv.a |-> DumpScalar(pv.a[i])])
      [] pv.k = "object" -> Obj([key \in DOMAIN pv.o |-> DumpV(pv.o[key])])
      [] OTHER -> pv

RECURSIVE SumNewlines(_, _)
SumNewlines(f, keys) ==
    IF keys = {} THEN 0
    ELSE LET key == CHOOSE x \in keys : TRUE
         IN  Newlines(f[key])
             + Let(keys \ {key}, LAMBDA rest : SumNewlines(f, rest))

\* json.dumps(..., indent=2): the number of "\n" in the text. A non-empty
\* container opens a line, and every member ends one.
Newlines(pv) ==
    CASE pv.k = "array" -> IF Len(pv.a) = 0 THEN 0 ELSE 1 + Len(pv.a)
      [] pv.k = "object" ->
            IF DOMAIN pv.o = {} THEN 0
            ELSE 1 + Cardinality(DOMAIN pv.o) + SumNewlines(pv.o, DOMAIN pv.o)
      [] OTHER -> 0

----------------------------------------------------------------------------
(* Text-mode file I/O: open(path, mode, encoding='utf-8') *)

\* A file is its JSON tokens (root) and its line-ending bytes, in order
\* (layout, over "CR" and "LF").
File(root, layout) == [root |-> root, layout |-> layout]

RECURSIVE UniversalNewlines(_)
\* reading in text mode: "\r\n" and "\r" become "\n"
UniversalNewlines(bs) ==
    IF Len(bs) = 0 THEN <<>>
    ELSE IF bs[1] = "CR" /\ Len(bs) >= 2 /\ bs[2] = "LF"
         THEN <<"LF">> \o Let(SubSeq(bs, 3, Len(bs)),
                              LAMBDA rest : UniversalNewlines(rest))
    ELSE IF bs[1] = "CR"
         THEN <<"LF">> \o Let(Tail(bs), LAMBDA rest : UniversalNewlines(rest))
    ELSE <<bs[1]>> \o Let(Tail(bs), LAMBDA rest : UniversalNewlines(rest))

RECURSIVE EncodeNewlines(_, _)
\* writing in text mode: "\n" becomes os.linesep
EncodeNewlines(cs, plat) ==
    IF Len(cs) = 0 THEN <<>>
    ELSE (IF cs[1] = "LF" /\ plat = "win32" THEN <<"CR", "LF">> ELSE <<cs[1]>>)
         \o Let(Tail(cs), LAMBDA rest : EncodeNewlines(rest, plat))

\* f.read()
ReadText(file) ==
    Let(file, LAMBDA f : File(f.root, UniversalNewlines(f.layout)))

\* f.write(text)
WriteText(text, plat) ==
    Let(text, LAMBDA t : File(t.root, EncodeNewlines(t.layout, plat)))

\* the file after open(path, 'w') succeeded and the write did not
Truncated == File(Invalid("truncated"), <<>>)

LFs(n) == [i \in 1..n |-> "LF"]

----------------------------------------------------------------------------
(* update_storage_file *)

TargetFields == {"machineId", "macMachineId", "devDeviceId", "sqmId"}

PyStr(v) == Scal(Lx("str", v))

\* the substring test  'telemetry' in <str>
HasSubstringTelemetry(v) == v \in {"telemetry", "xtelemetryx"}

\* 'telemetry' in config, by the type of config; "TypeError" when the type
\* has no membership test (int, float, bool, None)
InConfig(config) ==
    CASE config.k = "object" ->
            IF "telemetry" \in DOMAIN config.o THEN "yes" ELSE "no"
      [] config.k = "array" ->
            IF \E i \in DOMAIN config.a : config.a[i] = Lx("str", "telemetry")
            THEN "yes" ELSE "no"
      [] config.k = "scalar" /\ config.s.t = "str" ->
            IF HasSubstringTelemetry(config.s.v) THEN "yes" ELSE "no"
      [] OTHER -> "TypeError"

\* EnsureTelemetry without the isinstance test on config['telemetry']: the
\* item assignment of line 284 then raises on a telemetry of another type
EnsureTelemetry_noTypeCheck(config) ==
    LET isin == InConfig(config)
    IN  CASE isin = "TypeError" -> [st |-> "raise", config |-> config]
          [] isin = "no" /\ config.k = "object" ->
                [st |-> "ok",
                 config |-> Obj([key \in DOMAIN config.o \cup {"telemetry"} |->
                                   IF key = "telemetry" THEN Obj(<<>>)
                                   ELSE config.o[key]])]
          [] isin = "no" -> [st |-> "False", config |-> config]
          [] config.k # "object" -> [st |-> "raise", config |-> config]
          [] config.o["telemetry"].k # "object" -> [st |-> "raise", config |-> config]
          [] OTHER -> [st |-> "ok", config |-> config]

\* lines 275-281: make sure config['telemetry'] is a dict.
\* st is "ok", "False" (return False) or "raise" (an uncaught TypeError).
EnsureTelemetry(config) ==
    LET isin == InConfig(config)
        heal == IF config.k = "object"
                THEN [st |-> "ok",
                      config |-> Obj([key \in DOMAIN config.o \cup {"telemetry"} |->
                                        IF key = "telemetry" THEN Obj(<<>>)
                                        ELSE config.o[key]])]
                ELSE [st |-> "False", config |-> config]
    IN  CASE isin = "TypeError" -> [st |-> "raise", config |-> config]
          [] isin = "no" -> heal
          \* 'telemetry' in config: config['telemetry'] is evaluated
          [] config.k # "object" -> [st |-> "raise", config |-> config]
          [] config.o["telemetry"].k # "object" -> heal
          [] OTHER -> [st |-> "ok", config |-> config]

\* SetIdentity that assigns a fresh dict to config['telemetry']
SetIdentity_fresh(config, idset) ==
    Obj([key \in DOMAIN config.o |->
            IF key = "telemetry"
            THEN Obj([f \in TargetFields |-> PyStr(idset[f])])
            ELSE config.o[key]])

\* lines 283-287: set the four fields of config['telemetry']
SetIdentity(config, idset) ==
    LET tel == config.o["telemetry"]
        newTel == Obj([key \in DOMAIN tel.o \cup TargetFields |->
                        IF key \in TargetFields THEN PyStr(idset[key])
                        ELSE tel.o[key]])
    IN  Obj([key \in DOMAIN config.o |->
                IF key = "telemetry" THEN newTel ELSE config.o[key]])

\* json.dumps(config, indent=2, ensure_ascii=False)
Dumps(config) == Let(config, LAMBDA c : File(DumpV(c), LFs(Newlines(c))))

IOResults == {"ok", "open_fails", "write_fails"}

\* with open(path, 'w') as f: f.write(text), with its outcome
WriteFile(disk, text, plat, outcome) ==
    CASE outcome = "ok" -> WriteText(text, plat)
      [] outcome = "open_fails" -> disk
      [] OTHER -> Truncated

\* WriteBack that reports success whatever the write did
WriteBack_alwaysTrue(disk, original_content, config, plat, oc) ==
    [ret |-> "True",
     wrote |-> oc.write # "open_fails",
     disk |-> WriteFile(disk, Dumps(config), plat, oc.write)]

\* lines 289-303: write the updated document; on failure write the original
\* text back
WriteBack(disk, original_content, config, plat, oc) ==
    IF oc.write = "ok"
    THEN [ret |-> "True", wrote |-> TRUE,
          disk |-> WriteFile(disk, Dumps(config), plat, "ok")]
    ELSE [ret |-> "False",
          wrote |-> oc.write # "open_fails" \/ oc.recover # "open_fails",
          disk |-> WriteFile(WriteFile(disk, Dumps(config), plat, oc.write),
                             original_content, plat, oc.recover)]

\* lines 255-303. oc names the outcome of each I/O step.
update_storage_file(exists, disk, idset, plat, oc) ==
    LET unwritten(ret) == [ret |-> ret, wrote |-> FALSE, disk |-> disk]
        update(original_content, config, ensured) ==
            CASE original_content.root.k = "invalid" -> unwritten("False")
              [] ensured.st # "ok" -> unwritten(ensured.st)
              [] OTHER ->
                    Let(SetIdentity(ensured.config, idset),
                        LAMBDA updated :
                            WriteBack(disk, original_content, updated, plat, oc))
    IN  CASE ~exists -> unwritten("False")
          [] oc.read # "ok" -> unwritten("False")
          [] OTHER ->
                Let(ReadText(disk), LAMBDA original_content :
                Let(ParseV(original_content.root), LAMBDA config :
                Let(EnsureTelemetry(config), LAMBDA ensured :
                    update(original_content, config, ensured))))

Outcomes == [read : {"ok", "fail"}, write : IOResults, recover : IOResults]

\* the call gets as far as the write of line 291
ReachesWrite(exists, disk) ==
    /\ exists
    /\ Let(ReadText(disk), LAMBDA original_content :
           /\ original_content.root.k # "invalid"
           /\ Let(ParseV(original_content.root), LAMBDA config :
                  EnsureTelemetry(config).st = "ok"))

\* the outcomes that differ in effect: a step that is not reached is "ok"
UsfOutcomes(exists, disk) ==
    IF ReachesWrite(exists, disk)
    THEN {oc \in Outcomes :
            /\ oc.read = "fail" => oc.write = "ok"
            /\ oc.write = "ok" => oc.recover = "ok"}
    ELSE {oc \in Outcomes :
            /\ ~exists => oc.read = "ok"
            /\ oc.write = "ok" /\ oc.recover = "ok"}

----------------------------------------------------------------------------
(* update_machine_guid *)

\* files of a directory: name -> content
Put(dir, name, content) ==
    [n \in DOMAIN dir \cup {name} |-> IF n = name THEN content ELSE dir[n]]

\* strftime('%Y%m%d_%H%M%S'): the clock at one-second resolution
Timestamp(t) == t

RegOutcomes ==
    [open : {"ok", "fail"}, query : {"ok", "fail"}, mkdir : {"ok", "fail"},
     export : {"ok", "fail"}, set : {"ok", "set_fails", "requery_fails"},
     verify : {"same", "other"}, restore : {"ok", "fail"}]

NoRegOutcome ==
    [open |-> "none", query |-> "none", mkdir |-> "none", export |-> "none",
     set |-> "none", verify |-> "none", restore |-> "none"]

\* the value a foreign writer leaves in the registry
ForeignGuid == "guid-foreign"

\* line 230: the read-back comparison
VerifyResult_always(verify_guid, new_guid) == TRUE

VerifyResult(verify_guid, new_guid) == verify_guid = new_guid

\* lines 170-253. oc names the outcome of each registry and file step.
update_machine_guid(dirExists, reg, backups, t, new_guid, plat, oc) ==
    LET skip == [ret |-> FALSE, reg |-> reg, backups |-> backups,
                 dirExists |-> dirExists, wrote |-> FALSE, restore |-> "none"]
        original_guid == IF oc.query = "ok" THEN reg ELSE ""
        dir2 == dirExists \/ oc.mkdir = "ok"
        backup_file_name == <<"MachineGuid_", Timestamp(t), ".reg">>
        \* reg.exe export ... /y
        backups2 == IF dir2 /\ oc.export = "ok"
                    THEN Put(backups, backup_file_name, reg)
                    ELSE backups
        \* lines 241-250
        restoring == original_guid # "" /\ backup_file_name \in DOMAIN backups2
        recovered(cur) == IF restoring /\ oc.restore = "ok"
                          THEN backups2[backup_file_name] ELSE cur
        failed(cur, wrote) ==
            [ret |-> FALSE, reg |-> recovered(cur), backups |-> backups2,
             dirExists |-> dir2, wrote |-> wrote,
             restore |-> IF restoring THEN oc.restore ELSE "none"]
    IN  CASE plat # "win32" -> skip
          [] oc.open # "ok" -> skip
          [] oc.set = "set_fails" -> failed(reg, FALSE)
          [] oc.set = "requery_fails" -> failed(new_guid, TRUE)
          [] OTHER ->
                LET verify_guid == IF oc.verify = "same" THEN new_guid
                                   ELSE ForeignGuid
                IN  [ret |-> VerifyResult(verify_guid, new_guid), reg |-> verify_guid,
                     backups |-> backups2, dirExists |-> dir2, wrote |-> TRUE,
                     restore |-> "none"]

\* the outcomes that differ in effect: a step that is not reached is "ok"
UmgOutcomes(dirExists, backups, t) ==
    {oc \in RegOutcomes :
        /\ dirExists => oc.mkdir = "ok"
        /\ oc.open = "fail" =>
              /\ oc.query = "ok" /\ oc.mkdir = "ok" /\ oc.export = "ok"
              /\ oc.set = "ok"
        /\ oc.set # "ok" => oc.verify = "same"
        /\ oc.set = "ok" => oc.restore = "ok"
        /\ oc.query = "fail" => oc.restore = "ok"
        /\ (oc.export = "fail"
              /\ <<"MachineGuid_", Timestamp(t), ".reg">> \notin DOMAIN backups)
             => oc.restore = "ok"}

----------------------------------------------------------------------------
(* close_cursor_process *)

Names == {"Cursor", "cursor", "code"}

\* the processes of a table, whatever their name
RECURSIVE CountIn(_, _)
CountIn(table, names) ==
    IF names = {} THEN 0
    ELSE LET n == CHOOSE x \in names : TRUE
         IN  table[n] + CountIn(table, names \ {n})

NoProcess == [n \in Names |-> 0]

\* str.lower()
Lower(name) == IF name \in {"Cursor", "CURSOR"} THEN "cursor" ELSE name

\* main() lines 354-355: the argument of each call
ProcessName(c) == IF c = 1 THEN "Cursor" ELSE "cursor"

\* lines 124-129 and 146-151: the processes whose name matches
Matching(table, process_name) ==
    [n \in Names |-> IF Lower(n) = Lower(process_name) THEN table[n] ELSE 0]

\* LoopStep without the fatal exit: the budget runs out and the loop ends
LoopStep_noExit(rc, still_running) ==
    IF still_running = NoProcess THEN [next |-> "break", rc |-> rc]
    ELSE [next |-> "sleep", rc |-> rc + 1]

\* LoopStep with  retry_count > MAX_RETRIES  for  >=
LoopStep_offByOne(rc, still_running) ==
    IF still_running = NoProcess THEN [next |-> "break", rc |-> rc]
    ELSE IF rc + 1 > MAX_RETRIES THEN [next |-> "exit", rc |-> rc + 1]
    ELSE [next |-> "sleep", rc |-> rc + 1]

\* LoopStep that counts the attempt before it looks at the enumeration
LoopStep_countFirst(rc, still_running) ==
    IF rc + 1 >= MAX_RETRIES THEN [next |-> "exit", rc |-> rc + 1]
    ELSE IF still_running = NoProcess THEN [next |-> "break", rc |-> rc]
    ELSE [next |-> "sleep", rc |-> rc + 1]

\* LoopStep that does not count the attempt
LoopStep_noCount(rc, still_running) ==
    IF still_running = NoProcess THEN [next |-> "break", rc |-> rc]
    ELSE IF rc + 1 >= MAX_RETRIES THEN [next |-> "exit", rc |-> rc]
    ELSE [next |-> "sleep", rc |-> rc]

\* lines 153-166: one pass of the retry loop after the enumeration
LoopStep(rc, still_running) ==
    IF still_running = NoProcess THEN [next |-> "break", rc |-> rc]
    ELSE IF rc + 1 >= MAX_RETRIES THEN [next |-> "exit", rc |-> rc + 1]
    ELSE [next |-> "sleep", rc |-> rc + 1]

\* line 144: the loop condition
WhileCond(rc) == rc < MAX_RETRIES

\* HasMatches without the test of line 131
HasMatches_always(processes_to_kill) == TRUE

\* line 131: if processes_to_kill
HasMatches(processes_to_kill) == processes_to_kill # NoProcess

NoCall == [initial |-> "none", signalled |-> 0, polls |-> <<>>, sleeps |-> 0,
           end |-> "none"]

\* press_enter_to_exit(exit_code), lines 72-75
PressEnterToExit(code, why) ==
    /\ prompted' = TRUE
    /\ exitCode' = code
    /\ pc' = IF code = 0 THEN "Done" ELSE "Failed"
    /\ hist' = [hist EXCEPT !.failReason = why]

\* close_cursor_process returns to main()
ReturnFromClose ==
    /\ IF call = 1 THEN call' = 2 /\ pc' = "close"
                   ELSE call' = call /\ pc' = "backup"
    /\ UNCHANGED <<prompted, exitCode, hist>>

\* lines 121-143: the first enumeration and the termination requests
Enumerate ==
    /\ pc = "close"
    /\ LET processes_to_kill == Matching(procs, ProcessName(call))
       IN  /\ lastSeen' = procs
           /\ enumerated' = TRUE
           /\ retry_count' = 0
           /\ IF ~HasMatches(processes_to_kill)
              THEN /\ quiesce' = [NoCall EXCEPT !.initial = "empty",
                                                !.end = "returned"]
                   /\ ReturnFromClose
              ELSE /\ quiesce' = [NoCall EXCEPT
                                    !.initial = IF processes_to_kill = NoProcess
                                                THEN "empty" ELSE "found",
                                    !.signalled =
                                          CountIn(processes_to_kill, Names)]
                   /\ pc' = "loop"
                   /\ UNCHANGED <<call, prompted, exitCode, hist>>
    /\ UNCHANGED <<platform, admin, procs, spawns, now, backupDirExists,
                   cfgExists, cfgDisk, cfgBackups, regValue, regBackups, ids,
                   machine_guid_updated, storage_update_successful,
                   summaryShown>>

\* lines 144-168: one pass of the retry loop
Poll ==
    /\ pc = "loop"
    /\ LET still_running == Matching(procs, ProcessName(call))
           step == LoopStep(retry_count, still_running)
           polled == [quiesce EXCEPT !.polls =
                        Append(@, [t |-> now,
                                   still |-> still_running # NoProcess])]
       IN  /\ lastSeen' = procs
           /\ retry_count' = step.rc
           /\ CASE step.next = "break" ->
                     /\ quiesce' = [polled EXCEPT !.end = "returned"]
                     /\ now' = now
                     /\ ReturnFromClose
                [] step.next = "exit" ->
                     /\ quiesce' = [polled EXCEPT !.end = "exit"]
                     /\ now' = now
                     /\ call' = call
                     /\ PressEnterToExit(1, "timeout")
                [] OTHER ->
                     \* time.sleep(WAIT_TIME_SECONDS), then the loop condition
                     /\ now' = now + WAIT_TIME_SECONDS
                     /\ IF WhileCond(step.rc)
                        THEN /\ quiesce' = [polled EXCEPT !.sleeps = @ + 1]
                             /\ UNCHANGED <<pc, call, prompted, exitCode, hist>>
                        ELSE /\ quiesce' = [polled EXCEPT !.sleeps = @ + 1,
                                                          !.end = "returned"]
                             /\ ReturnFromClose
    /\ UNCHANGED <<platform, admin, procs, spawns, enumerated, backupDirExists,
                   cfgExists, cfgDisk, cfgBackups, regValue, regBackups, ids,
                   machine_guid_updated, storage_update_successful,
                   summaryShown>>

----------------------------------------------------------------------------
(* The other processes of the machine *)

\* The process table is read by close_cursor_process only: it is followed
\* from the start of the run to the return of the last call.
Running == pc \in {"admin", "close", "loop"}

EnvUnchanged ==
    UNCHANGED <<platform, admin, now, pc, call, retry_count, lastSeen,
                enumerated, quiesce, backupDirExists, cfgExists, cfgDisk,
                cfgBackups, regValue, regBackups, ids, machine_guid_updated,
                storage_update_successful, exitCode, prompted, summaryShown,
                hist>>

\* a process ends, on the termination request or by itself
ProcExit ==
    /\ Running
    /\ \E n \in Names :
          /\ procs[n] > 0
          /\ procs' = [procs EXCEPT ![n] = @ - 1]
    /\ UNCHANGED spawns
    /\ EnvUnchanged

\* a process starts
ProcSpawn ==
    /\ Running
    /\ spawns < MaxSpawns
    /\ CountIn(procs, Names) < MaxProcs
    /\ \E n \in Names : procs' = [procs EXCEPT ![n] = @ + 1]
    /\ spawns' = spawns + 1
    /\ EnvUnchanged

----------------------------------------------------------------------------
(* main *)

NoIds == [machineId |-> "", macMachineId |-> "", devDeviceId |-> "", sqmId |-> ""]

HexDigits == {"0", "1", "2", "3", "4", "5", "6", "7", "8", "9",
              "a", "b", "c", "d", "e", "f"}

UpperHexDigits == {"0", "1", "2", "3", "4", "5", "6", "7", "8", "9",
                   "A", "B", "C", "D", "E", "F"}

\* str.upper() on one character of a hex string
UpperChar(c) ==
    CASE c = "a" -> "A" [] c = "b" -> "B" [] c = "c" -> "C"
      [] c = "d" -> "D" [] c = "e" -> "E" [] c = "f" -> "F"
      [] OTHER -> c

Upper(cs) == [i \in DOMAIN cs |-> UpperChar(cs[i])]

\* uuid.uuid4().hex: 32 lowercase hex characters, the version digit 4 at
\* position 13 and the variant digit y at position 17; c1 and c2 stand for
\* the random digits before and after the version digit
UuidHex(c1, c2, y) ==
    [i \in 1..32 |-> IF i = 13 THEN "4"
                     ELSE IF i = 17 THEN y
                     ELSE IF i < 13 THEN c1 ELSE c2]

VariantDigits == {"8", "9", "a", "b"}

AllUuids ==
    {UuidHex(c1, c2, y) : c1 \in HexDigits, c2 \in HexDigits,
                          y \in VariantDigits}

\* the uuids the whole-run specification draws from
UuidSamples == {UuidHex("0", "9", "8"), UuidHex("c", "f", "b")}

\* the characters of a string, as one string
RECURSIVE Join(_)
Join(cs) == IF cs = <<>> THEN "" ELSE Head(cs) \o Join(Tail(cs))

\* SqmId without the upper()
SqmId_lower(hex) == <<"{">> \o hex \o <<"}">>

\* line 400: f"{{{uuid.uuid4().hex.upper()}}}", character by character
SqmId(hex) == <<"{">> \o Upper(hex) \o <<"}">>

\* lines 393-400: the four identifiers of a run whose uuid4() for the SQM id
\* returned hex
NewIds(hex) ==
    [machineId |-> "61757468307c757365725f" \o hex[1],
     macMachineId |-> "mac-" \o hex[1],
     devDeviceId |-> "dev-" \o hex[1],
     sqmId |-> Join(SqmId(hex))]

IdSets == {NewIds(hex) : hex \in UuidSamples}

\* str(uuid.uuid4()) of update_machine_guid
NewGuids == {"guid-new"}

NoOutcome == [read |-> "none", write |-> "none", recover |-> "none"]

\* nothing printed yet by lines 420-464
NoReport == [summary |-> NoIds, backups |-> [cfg |-> {}, reg |-> {}],
             closing |-> ""]

\* AdminGate without the test of line 308
AdminGate_open(is_admin) == "close"

\* lines 308-311: where main() goes after is_admin()
AdminGate(is_admin) == IF is_admin THEN "close" ELSE "exit"

\* lines 307-311
CheckAdmin ==
    /\ pc = "admin"
    /\ IF AdminGate(admin) = "close"
       THEN pc' = "close" /\ UNCHANGED <<prompted, exitCode, hist>>
       ELSE PressEnterToExit(1, "admin")
    /\ UNCHANGED <<platform, admin, procs, spawns, now, call, retry_count,
                   lastSeen, enumerated, quiesce, backupDirExists, cfgExists,
                   cfgDisk, cfgBackups, regValue, regBackups, ids,
                   machine_guid_updated, storage_update_successful,
                   summaryShown>>

\* lines 370-391: the backup directory and the copy of the config file
Backup ==
    /\ pc = "backup"
    /\ \E mk \in {"ok", "fail"}, cp \in {"ok", "fail"} :
          /\ backupDirExists => mk = "ok"
          /\ (~cfgExists \/ mk = "fail") => cp = "ok"
          /\ IF mk = "fail"
             THEN /\ PressEnterToExit(1, "mkdir")
                  /\ UNCHANGED <<backupDirExists, cfgBackups>>
             ELSE /\ backupDirExists' = TRUE
                  /\ pc' = "genids"
                  /\ UNCHANGED <<prompted, exitCode>>
                  /\ IF cfgExists /\ cp = "ok"
                     THEN /\ cfgBackups' =
                               Put(cfgBackups,
                                   <<"storage.json.backup_", Timestamp(now)>>,
                                   cfgDisk)
                          /\ hist' = [hist EXCEPT !.copyOk = TRUE]
                     ELSE UNCHANGED <<cfgBackups, hist>>
    /\ UNCHANGED <<platform, admin, procs, spawns, now, call, retry_count,
                   lastSeen, enumerated, quiesce, cfgExists, cfgDisk, regValue,
                   regBackups, ids, machine_guid_updated,
                   storage_update_successful, summaryShown>>

\* lines 393-401, the uuid4() of line 400 drawn from pool
Generate(pool) ==
    /\ \E hex \in pool :
          /\ ids' = NewIds(hex)
          /\ hist' = [hist EXCEPT !.sqmChars = SqmId(hex)]
    /\ pc' = "registry"
    /\ UNCHANGED <<platform, admin, procs, spawns, now, call, retry_count,
                   lastSeen, enumerated, quiesce, backupDirExists, cfgExists,
                   cfgDisk, cfgBackups, regValue, regBackups,
                   machine_guid_updated, storage_update_successful, exitCode,
                   prompted, summaryShown>>

GenerateIds ==
    /\ pc = "genids"
    /\ Generate(UuidSamples)

\* AfterRegistry that takes a failed registry update for fatal
AfterRegistry_fatal(guid_updated) == IF guid_updated THEN "config" ELSE "exit"

\* lines 406-411: the result of update_machine_guid is stored and main()
\* goes on to the config update
AfterRegistry(guid_updated) == "config"

\* lines 404-411: main() stores the result and goes on
StoreGuidResult(guid_updated, h) ==
    /\ machine_guid_updated' = guid_updated
    /\ IF AfterRegistry(guid_updated) = "config"
       THEN /\ pc' = "config"
            /\ hist' = h
            /\ UNCHANGED <<exitCode, prompted>>
       ELSE /\ pc' = "Failed"
            /\ exitCode' = 1
            /\ prompted' = TRUE
            /\ hist' = [h EXCEPT !.failReason = "registry"]

\* lines 403-408
UpdateRegistry ==
    /\ pc = "registry"
    /\ IF platform = "win32"
       THEN \E oc \in UmgOutcomes(backupDirExists, regBackups, now), g \in NewGuids :
               LET r == update_machine_guid(backupDirExists, regValue,
                                            regBackups, now, g, platform, oc)
               IN  /\ regValue' = r.reg
                   /\ regBackups' = r.backups
                   /\ backupDirExists' = r.dirExists
                   /\ StoreGuidResult(r.ret,
                         [hist EXCEPT !.regWrote = r.wrote, !.umgOc = oc,
                                      !.umgGuid = g,
                                      !.regRestore = r.restore])
       ELSE /\ StoreGuidResult(FALSE, hist)
            /\ UNCHANGED <<regValue, regBackups, backupDirExists>>
    /\ UNCHANGED <<platform, admin, procs, spawns, now, call, retry_count,
                   lastSeen, enumerated, quiesce, cfgExists, cfgDisk,
                   cfgBackups, ids, storage_update_successful, summaryShown>>

\* lines 410-432: the config update, then the summary or the fatal exit
UpdateConfig ==
    /\ pc = "config"
    /\ \E oc \in UsfOutcomes(cfgExists, cfgDisk) :
        \E r \in {update_storage_file(cfgExists, cfgDisk, ids, platform, oc)} :
          LET h == [hist EXCEPT !.cfgWrote = r.wrote, !.usfOc = oc,
                                !.usfBefore = cfgDisk]
          IN  /\ cfgDisk' = r.disk
              /\ storage_update_successful' = r.ret
              /\ CASE r.ret = "True" ->
                        /\ summaryShown' = TRUE
                        /\ pc' = "report"
                        /\ hist' = h
                        /\ UNCHANGED <<prompted, exitCode>>
                   [] r.ret = "False" ->
                        /\ summaryShown' = summaryShown
                        /\ prompted' = TRUE
                        /\ exitCode' = 1
                        /\ pc' = "Failed"
                        /\ hist' = [h EXCEPT !.failReason = "config"]
                   [] OTHER ->
                        \* update_storage_file raised: main() has no handler
                        /\ summaryShown' = summaryShown
                        /\ pc' = "Crashed"
                        /\ exitCode' = 1
                        /\ prompted' = prompted
                        /\ hist' = [h EXCEPT !.failReason = "TypeError"]
    /\ UNCHANGED <<platform, admin, procs, spawns, now, call, retry_count,
                   lastSeen, enumerated, quiesce, backupDirExists, cfgExists,
                   cfgBackups, regValue, regBackups, ids, machine_guid_updated>>

\* lines 420-464: what a run that updated the config prints at its end: the
\* summary of the identifiers, the backup files found, the closing message.
\* machine_guid_updated is not read after line 406.
TerminalReport(guid_updated, idset, cfgFiles, regFiles) ==
    [summary |-> idset,
     backups |-> [cfg |-> cfgFiles, reg |-> regFiles],
     closing |-> "restart Cursor to apply the new configuration"]

\* lines 434-464: the file listing and the final prompt
Finish ==
    /\ pc = "report"
    /\ prompted' = TRUE
    /\ exitCode' = 0
    /\ pc' = "Done"
    /\ hist' = [hist EXCEPT !.report =
                  TerminalReport(machine_guid_updated, ids,
                                 DOMAIN cfgBackups, DOMAIN regBackups)]
    /\ UNCHANGED <<platform, admin, procs, spawns, now, call, retry_count,
                   lastSeen, enumerated, quiesce, backupDirExists, cfgExists,
                   cfgDisk, cfgBackups, regValue, regBackups, ids,
                   machine_guid_updated, storage_update_successful,
                   summaryShown>>

----------------------------------------------------------------------------
(* Initial states *)

OldTelemetry == Obj([key \in {"machineId", "x"} |->
                        IF key = "machineId" THEN Scal(Lx("str", "old"))
                        ELSE Scal(Lx("num", "1.0e0"))])

\* the config files of the orchestrator's runs
MainFiles ==
    {File(Obj([key \in {"telemetry", "y"} |->
                 IF key = "telemetry" THEN OldTelemetry
                 ELSE Scal(Lx("str", "\\u0061"))]), <<"LF">>),
     File(Obj(<<>>), <<>>),
     File(Arr(<<Lx("str", "telemetry")>>), <<>>),
     File(Scal(Lx("num", "1")), <<"LF">>),
     File(Invalid("syntax"), <<>>)}

NoFile == File(Invalid("absent"), <<>>)

\* what is recorded of a run: nothing has happened yet in run number run
NewHist(disk, exists, reg, copied, run) ==
    [cfgAtStart |-> disk, cfgExistedAtStart |-> exists, regAtStart |-> reg,
     copyOk |-> copied, cfgWrote |-> FALSE, regWrote |-> FALSE,
     failReason |-> "none", usfOc |-> NoOutcome, usfBefore |-> NoFile,
     umgOc |-> NoRegOutcome, umgGuid |-> "", regRestore |-> "none",
     report |-> NoReport, sqmChars |-> <<>>, run |-> run]

ProcessTables ==
    {table \in [Names -> 0..MaxProcs] : CountIn(table, Names) <= MaxProcs}

InitRun ==
    /\ spawns = 0
    /\ now = 0
    /\ call = 1
    /\ retry_count = 0
    /\ lastSeen = NoProcess
    /\ enumerated = FALSE
    /\ quiesce = NoCall
    /\ cfgBackups = <<>>
    /\ regValue = "guid-old"
    /\ regBackups = <<>>
    /\ ids = NoIds
    /\ machine_guid_updated = FALSE
    /\ storage_update_successful = "none"
    /\ exitCode = -1
    /\ prompted = FALSE
    /\ summaryShown = FALSE
    /\ hist = NewHist(cfgDisk, cfgExists, regValue, FALSE, 1)

Init ==
    /\ platform \in {"win32", "posix"}
    /\ admin \in BOOLEAN
    /\ procs \in ProcessTables
    /\ pc = "admin"
    /\ backupDirExists \in BOOLEAN
    /\ cfgExists \in BOOLEAN
    /\ cfgDisk \in IF cfgExists THEN MainFiles ELSE {NoFile}
    /\ InitRun

Next ==
    \/ CheckAdmin
    \/ Enumerate
    \/ Poll
    \/ Backup
    \/ GenerateIds
    \/ UpdateRegistry
    \/ UpdateConfig
    \/ Finish
    \/ ProcExit
    \/ ProcSpawn

Spec == Init /\ [][Next]_vars

----------------------------------------------------------------------------
(* update_storage_file on its own: every config file of the bounded       *)
(* universe, at the call of line 412                                       *)

Layouts == UNION {[1..n -> {"CR", "LF"}] : n \in 0..MaxLayoutLen}

FieldTexts == {Scal(Lx("str", "old")), Scal(Lx("num", "1.0e0"))}

\* telemetry objects holding a target field, an unrelated key, both or none
TelemetryTexts ==
    {Obj(f) : f \in UNION {[S -> FieldTexts] : S \in SUBSET {"machineId", "x"}}}

\* telemetry of the wrong type
WrongTelemetryTexts ==
    {Scal(Lx("str", "telemetry")), Scal(Lx("lit", "null")),
     Arr(<<Lx("num", "1")>>)}

\* an unrelated top-level value
OtherTexts == {Scal(Lx("str", "\\u0061")), Obj([key \in {"x"} |-> Scal(Lx("num", "1"))])}

RootMembers ==
    {f \in UNION {[S -> TelemetryTexts \cup WrongTelemetryTexts \cup OtherTexts] :
                      S \in SUBSET {"telemetry", "y"}} :
        /\ "telemetry" \in DOMAIN f =>
              f["telemetry"] \in TelemetryTexts \cup WrongTelemetryTexts
        /\ "y" \in DOMAIN f => f["y"] \in OtherTexts}

ObjectRoots == {Obj(f) : f \in RootMembers}

ArrayRoots ==
    {Arr(<<>>), Arr(<<Lx("str", "telemetry")>>),
     Arr(<<Lx("str", "a"), Lx("num", "1")>>)}

ScalarRoots ==
    {Scal(l) : l \in {Lx("str", "abc"), Lx("str", "telemetry"),
                      Lx("str", "xtelemetryx"), Lx("num", "1"),
                      Lx("num", "1.0"), Lx("lit", "true"), Lx("lit", "null")}}

UsfFiles ==
    {File(root, layout) :
        root \in ObjectRoots \cup ArrayRoots \cup ScalarRoots
                 \cup {Invalid("syntax")},
        layout \in Layouts}

Returned == [NoCall EXCEPT !.initial = "empty", !.end = "returned"]

\* main() at line 410 of a run that found no process to close and did not
\* change the registry
InitUSF ==
    /\ platform \in {"win32", "posix"}
    /\ admin = TRUE
    /\ procs = NoProcess
    /\ pc = "config"
    /\ backupDirExists = TRUE
    /\ cfgExists \in BOOLEAN
    /\ cfgDisk \in IF cfgExists THEN UsfFiles ELSE {NoFile}
    /\ spawns = 0
    /\ now = 0
    /\ call = 2
    /\ retry_count = 0
    /\ lastSeen = NoProcess
    /\ enumerated = TRUE
    /\ quiesce = Returned
    /\ cfgBackups = IF cfgExists
                    THEN Put(<<>>, <<"storage.json.backup_", Timestamp(now)>>,
                             cfgDisk)
                    ELSE <<>>
    /\ regValue = "guid-old"
    /\ regBackups = <<>>
    /\ ids \in IdSets
    /\ machine_guid_updated = FALSE
    /\ storage_update_successful = "none"
    /\ exitCode = -1
    /\ prompted = FALSE
    /\ summaryShown = FALSE
    /\ hist = NewHist(cfgDisk, cfgExists, regValue, cfgExists, 1)

NextUSF == UpdateConfig

SpecUSF == InitUSF /\ [][NextUSF]_vars

----------------------------------------------------------------------------
(* The generation of the identifiers on its own: every uuid of the        *)
(* bounded universe, at line 393                                           *)

\* main() at line 393 of a Windows run that found no process to close and
\* no config file to copy
InitIds ==
    /\ platform = "win32"
    /\ admin = TRUE
    /\ procs = NoProcess
    /\ pc = "genids"
    /\ backupDirExists = TRUE
    /\ cfgExists = FALSE
    /\ cfgDisk = NoFile
    /\ spawns = 0
    /\ now = 0
    /\ call = 2
    /\ retry_count = 0
    /\ lastSeen = NoProcess
    /\ enumerated = TRUE
    /\ quiesce = Returned
    /\ cfgBackups = <<>>
    /\ regValue = "guid-old"
    /\ regBackups = <<>>
    /\ ids = NoIds
    /\ machine_guid_updated = FALSE
    /\ storage_update_successful = "none"
    /\ exitCode = -1
    /\ prompted = FALSE
    /\ summaryShown = FALSE
    /\ hist = NewHist(cfgDisk, cfgExists, regValue, FALSE, 1)

GenerateAnyIds ==
    /\ pc = "genids"
    /\ Generate(AllUuids)

NextIds == GenerateAnyIds

SpecIds == InitIds /\ [][NextIds]_vars

----------------------------------------------------------------------------
(* Properties of the quiescer and of the orchestrator (Spec) *)

\* a process named "cursor", in any letter case, is in the table
CursorObserved(table) ==
    \E n \in Names : table[n] > 0 /\ n \in {"cursor", "Cursor", "CURSOR"}

\* a call polled MAX_RETRIES times and still saw a match at the last poll
TimedOut ==
    /\ Len(quiesce.polls) = 5
    /\ quiesce.polls[5].still

Ended == pc \in {"Done", "Failed", "Crashed"}

\* C1: the config file and the registry value are written only when the most
\* recent enumeration of processes saw no process named "cursor" (in any
\* letter case); a call that still sees one when the retry budget is used up
\* ends the run with exit code 1, the file and the value never written.
C1_NoWriteWhileObserved ==
    /\ (hist.cfgWrote \/ hist.regWrote) =>
          enumerated /\ ~CursorObserved(lastSeen)
    /\ TimedOut =>
          /\ pc = "Failed" /\ exitCode = 1
          /\ ~hist.cfgWrote /\ ~hist.regWrote
          /\ cfgDisk = hist.cfgAtStart /\ regValue = hist.regAtStart

\* a run that waited for a process to close, and then wrote both
C1_Witness ==
    /\ pc = "Done"
    /\ now > 0
    /\ hist.cfgWrote /\ hist.regWrote

\* C2 (as stated): when the config file exists at the start, it and the
\* registry value are written only in a run that copied the config file to
\* the backup directory.
C2_BackupBeforeWrite ==
    (hist.cfgExistedAtStart /\ (hist.cfgWrote \/ hist.regWrote)) => hist.copyOk

\* C7: after the termination requests a call enumerates at most 5 times, one
\* second after the other; it ends the run with exit code 1 exactly when the
\* 5th enumeration still sees a match, and then it does not return.
C7_RetryBudget ==
    LET q == quiesce
        n == Len(q.polls)
    IN  /\ n <= 5
        /\ n > 0 => q.signalled > 0
        /\ \A i \in 1..(n - 1) : q.polls[i + 1].t - q.polls[i].t = 1
        /\ q.end = "exit" <=> (n = 5 /\ q.polls[n].still)
        /\ q.end = "exit" => pc = "Failed" /\ exitCode = 1 /\ prompted
        /\ q.end = "returned" /\ n > 0 => ~q.polls[n].still

\* the second call used up its budget
C7_Witness ==
    /\ call = 2
    /\ quiesce.end = "exit"
    /\ Len(quiesce.polls) = 5
    /\ quiesce.polls[5].t - quiesce.polls[1].t = 4

\* C8: a poll that sees no match is the last poll of its call, and the call
\* returns there; the run does not fail on the timeout of that call.
C8_EarlySuccess ==
    \A i \in 1..Len(quiesce.polls) :
        ~quiesce.polls[i].still =>
            /\ i = Len(quiesce.polls)
            /\ i <= 5
            /\ quiesce.end = "returned"
            /\ quiesce.sleeps = i - 1
            /\ hist.failReason # "timeout"

\* the matches were there at the first poll and gone at the second
C8_Witness ==
    /\ Len(quiesce.polls) = 2
    /\ quiesce.polls[1].still
    /\ ~quiesce.polls[2].still
    /\ quiesce.end = "returned"
    /\ pc = "Done"

\* C9: a call whose first enumeration finds no match returns at once: no
\* termination request, no poll, no wait.
C9_NoMatch ==
    quiesce.initial = "empty" =>
        /\ quiesce.end = "returned"
        /\ quiesce.signalled = 0
        /\ quiesce.polls = <<>>
        /\ quiesce.sleeps = 0

\* both calls found nothing although another process was running
C9_Witness ==
    /\ quiesce.initial = "empty"
    /\ lastSeen["code"] > 0
    /\ now = 0
    /\ pc = "backup"

----------------------------------------------------------------------------
(* Properties of update_storage_file (SpecUSF) *)

Called == storage_update_successful # "none"

\* the call read the file
ReadOk == cfgExists /\ hist.usfOc.read = "ok"

BeforeValue == ParseV(ReadText(hist.usfBefore).root)
AfterValue == ParseV(ReadText(cfgDisk).root)

\* every key of f but those of skip has its value in g
Preserved(f, g, skip) ==
    \A key \in DOMAIN f \ skip : key \in DOMAIN g /\ g[key] = f[key]

HasObjectTelemetry(v) ==
    /\ v.k = "object"
    /\ "telemetry" \in DOMAIN v.o
    /\ v.o["telemetry"].k = "object"

\* C3 (as stated): when the document was parsed, the write of the new
\* document failed and the write of the original text succeeded, the call
\* returns False and the file holds its original bytes.
C3_RollbackRestoresOriginal ==
    (/\ Called /\ ReadOk
     /\ BeforeValue.k = "object"
     /\ hist.usfOc.write # "ok"
     /\ hist.usfOc.recover = "ok") =>
        /\ storage_update_successful = "False"
        /\ cfgDisk = hist.usfBefore

\* C4 (as stated): on a document whose root is an array or a scalar the call
\* returns False, without raising, and leaves the file as it was.
C4_Refusal ==
    (Called /\ ReadOk /\ BeforeValue.k \in {"array", "scalar"}) =>
        /\ storage_update_successful = "False"
        /\ cfgDisk = hist.usfBefore

\* C5: after a successful update of an object with an object telemetry,
\* every other top-level key and every telemetry key other than the four
\* target fields has its previous value, and the four fields have the
\* supplied identifiers.
C5_RoundTrip ==
    (/\ Called /\ ReadOk
     /\ HasObjectTelemetry(BeforeValue)
     /\ storage_update_successful = "True") =>
        /\ HasObjectTelemetry(AfterValue)
        /\ Preserved(BeforeValue.o, AfterValue.o, {"telemetry"})
        /\ Preserved(BeforeValue.o["telemetry"].o, AfterValue.o["telemetry"].o,
                     TargetFields)
        /\ \A f \in TargetFields :
              /\ f \in DOMAIN AfterValue.o["telemetry"].o
              /\ AfterValue.o["telemetry"].o[f] = PyStr(ids[f])

\* an update that kept an unrelated key at each level and replaced machineId
C5_Witness ==
    /\ Called /\ storage_update_successful = "True"
    /\ HasObjectTelemetry(BeforeValue)
    /\ "y" \in DOMAIN BeforeValue.o
    /\ DOMAIN BeforeValue.o["telemetry"].o = {"machineId", "x"}
    /\ AfterValue.o["telemetry"].o["x"] = Scal(Lx("float", "1.0"))
    /\ AfterValue.o["telemetry"].o["machineId"] # BeforeValue.o["telemetry"].o["machineId"]
    /\ cfgDisk # hist.usfBefore

\* C6: on an object whose telemetry is missing or is not an object the call
\* does not refuse: it returns True when the write completes, and then
\* telemetry is an object of the four target fields and nothing else, the
\* other top-level keys kept.
C6_SelfHeal ==
    (/\ Called /\ ReadOk
     /\ BeforeValue.k = "object"
     /\ ~HasObjectTelemetry(BeforeValue)) =>
        /\ storage_update_successful \in {"True", "False"}
        /\ hist.usfOc.write = "ok" => storage_update_successful = "True"
        /\ storage_update_successful = "True" =>
              /\ HasObjectTelemetry(AfterValue)
              /\ DOMAIN AfterValue.o["telemetry"].o = TargetFields
              /\ \A f \in TargetFields :
                    AfterValue.o["telemetry"].o[f] = PyStr(ids[f])
              /\ Preserved(BeforeValue.o, AfterValue.o, {"telemetry"})
              /\ DOMAIN AfterValue.o = DOMAIN BeforeValue.o \cup {"telemetry"}

\* a telemetry of the wrong type was replaced and the other key kept
C6_Witness ==
    /\ Called /\ storage_update_successful = "True"
    /\ BeforeValue.k = "object"
    /\ DOMAIN BeforeValue.o = {"telemetry", "y"}
    /\ BeforeValue.o["telemetry"].k = "scalar"
    /\ DOMAIN AfterValue.o["telemetry"].o = TargetFields

----------------------------------------------------------------------------
(* Properties of the registry step and of the end of the run (Spec) *)

\* C11: the step of main() that follows the registry update goes to the
\* config update, never to the exit, when update_machine_guid returned False
\* (or was skipped); such a run can end in Done with exit code 0.
C11_RegistryFailureNotFatal ==
    [][(pc = "registry" /\ pc' # "registry" /\ ~machine_guid_updated') =>
          (pc' = "config" /\ exitCode' = -1 /\ ~prompted')]_vars

\* the registry key could not be opened and the run ended in Done
C11_Witness ==
    /\ pc = "Done" /\ exitCode = 0
    /\ platform = "win32"
    /\ hist.umgOc.open = "fail"
    /\ ~machine_guid_updated

\* C12 (as stated): what a run that reaches Done reports depends on the
\* result of update_machine_guid: with the other result it would report
\* something else.
C12_ReportDistinguishes ==
    pc = "Done" =>
        hist.report # TerminalReport(~machine_guid_updated, ids,
                                     DOMAIN cfgBackups, DOMAIN regBackups)

\* C15 (as stated): a run ends through the prompt, with exit code 0 exactly
\* when the config was updated and with exit code 1 otherwise.
C15_ExitThroughPrompt ==
    Ended =>
        /\ prompted
        /\ exitCode \in {0, 1}
        /\ exitCode = 0 <=> storage_update_successful = "True"

\* C16: a run without administrator rights ends at the check of line 308
\* with exit code 1: no enumeration, no termination request, no backup, no
\* write of the registry value or of the config file.
C16_NoAdminNoMutation ==
    ~admin =>
        /\ pc \in {"admin", "Failed"}
        /\ pc = "Failed" => exitCode = 1 /\ prompted
        /\ ~enumerated /\ quiesce = NoCall
        /\ cfgBackups = <<>> /\ regBackups = <<>>
        /\ ~hist.cfgWrote /\ ~hist.regWrote
        /\ cfgDisk = hist.cfgAtStart /\ regValue = hist.regAtStart

\* no rights, a running Cursor and an existing config: the run has failed
C16_Witness ==
    /\ ~admin
    /\ pc = "Failed" /\ hist.failReason = "admin"
    /\ procs["Cursor"] > 0
    /\ cfgExists

\* C20 (as stated): a run that ends with exit code 1 on the failure of the
\* config update leaves the registry value as it was before the run.
C20_FailedLeavesRegistry ==
    (pc = "Failed" /\ hist.failReason = "config") => regValue = hist.regAtStart

\* update_machine_guid got as far as opening the key
RegistryOpened == hist.umgOc # NoRegOutcome /\ hist.umgOc.open = "ok"

\* C13 (as stated): when the write step of update_machine_guid failed, the
\* call returned False, and it attempted the import of the backup file
\* exactly when the export of this call had produced one, whether or not the
\* read of the current value had succeeded.
C13_RestoreWheneverBackup ==
    (RegistryOpened /\ hist.umgOc.set # "ok") =>
        /\ ~machine_guid_updated
        /\ hist.regRestore # "none" <=> regBackups # <<>>

\* C14: update_machine_guid returned True only after the key was opened, the
\* new value was set and the value read back equals it, and then the registry
\* holds the new value; a read-back of another value gives False.
C14_TrueOnlyIfVerified ==
    machine_guid_updated =>
        /\ platform = "win32"
        /\ RegistryOpened
        /\ hist.umgOc.set = "ok"
        /\ hist.umgOc.verify = "same"
        /\ hist.regWrote
        /\ regValue = hist.umgGuid

\* True was returned although the export of the backup had failed
C14_Witness ==
    /\ machine_guid_updated
    /\ hist.umgOc.export = "fail"
    /\ regBackups = <<>>
    /\ regValue # hist.regAtStart

----------------------------------------------------------------------------
(* Properties of the generated identifiers (SpecIds) *)

\* the identifiers of the run have been generated
Generated == ids # NoIds

\* C18 (as stated): every generated SQM id has 38 characters, the first a
\* '{', the last a '}', and the 36 between them uppercase hex digits.
C18_SqmIdLength38 ==
    Generated =>
        /\ Len(ids.sqmId) = 38
        /\ ids.sqmId = Join(hist.sqmChars)
        /\ Len(hist.sqmChars) = 38
        /\ hist.sqmChars[1] = "{" /\ hist.sqmChars[38] = "}"
        /\ \A i \in 2..37 : hist.sqmChars[i] \in UpperHexDigits

\* C18 (amended): every generated SQM id has 34 characters, the first a
\* '{', the last a '}', and the 32 between them uppercase hex digits.
C18_SqmIdLength34 ==
    Generated =>
        /\ Len(ids.sqmId) = 34
        /\ ids.sqmId = Join(hist.sqmChars)
        /\ Len(hist.sqmChars) = 34
        /\ hist.sqmChars[1] = "{" /\ hist.sqmChars[34] = "}"
        /\ \A i \in 2..33 : hist.sqmChars[i] \in UpperHexDigits

\* an id generated from a uuid with letters before and after the version
\* digit, and a letter as variant digit
C18_Witness ==
    /\ Generated
    /\ hist.sqmChars[2] = "C" /\ hist.sqmChars[14] = "4"
    /\ hist.sqmChars[18] = "B" /\ hist.sqmChars[33] = "F"

----------------------------------------------------------------------------
(* Runs one after the other on the same machine, with no Cursor process   *)
(* to close (SpecRuns)                                                     *)

MaxRuns == 2

\* line 466: the program is started again after a run has ended, in the
\* second in which that run made its backups or in the next one. The files,
\* the backups directory and the registry are as the run left them.
Restart ==
    /\ pc \in {"Done", "Failed", "Crashed"}
    /\ hist.run < MaxRuns
    /\ now' \in {now, now + 1}
    /\ pc' = "admin"
    /\ call' = 1
    /\ retry_count' = 0
    /\ lastSeen' = NoProcess
    /\ enumerated' = FALSE
    /\ quiesce' = NoCall
    /\ ids' = NoIds
    /\ machine_guid_updated' = FALSE
    /\ storage_update_successful' = "none"
    /\ exitCode' = -1
    /\ prompted' = FALSE
    /\ summaryShown' = FALSE
    /\ hist' = NewHist(cfgDisk, cfgExists, regValue, FALSE, hist.run + 1)
    /\ UNCHANGED <<platform, admin, procs, spawns, backupDirExists, cfgExists,
                   cfgDisk, cfgBackups, regValue, regBackups>>

InitRuns ==
    /\ platform \in {"win32", "posix"}
    /\ admin = TRUE
    /\ procs = NoProcess
    /\ pc = "admin"
    /\ backupDirExists \in BOOLEAN
    /\ cfgExists \in BOOLEAN
    /\ cfgDisk \in IF cfgExists THEN MainFiles ELSE {NoFile}
    /\ InitRun

NextRuns ==
    \/ CheckAdmin
    \/ Enumerate
    \/ Backup
    \/ GenerateIds
    \/ UpdateRegistry
    \/ UpdateConfig
    \/ Finish
    \/ Restart

SpecRuns == InitRuns /\ [][NextRuns]_vars

\* C17 (as stated): no step of any run changes or removes a backup file that
\* exists: a config copy or a registry export keeps its content for ever.
C17_BackupsNeverOverwritten ==
    [][/\ \A n \in DOMAIN cfgBackups :
             n \in DOMAIN cfgBackups' /\ cfgBackups'[n] = cfgBackups[n]
       /\ \A n \in DOMAIN regBackups :
             n \in DOMAIN regBackups' /\ regBackups'[n] = regBackups[n]]_vars

----------------------------------------------------------------------------
(* Termination (SpecFair) *)

\* a step of the program itself
Step ==
    \/ CheckAdmin
    \/ Enumerate
    \/ Poll
    \/ Backup
    \/ GenerateIds
    \/ UpdateRegistry
    \/ UpdateConfig
    \/ Finish

\* The program is one sequential thread: while it has not ended, its next
\* statement is eventually executed (every system call and the sleep of line
\* 166 return). Nothing is assumed of the other processes.
SpecFair == Init /\ [][Next]_vars /\ WF_vars(Step)

====
